---- MODULE Spec2Model ----
(***************************************************************************)
(* Hikvision biometric integration: the device sync (ingest) that pulls    *)
(* device events into Biometric Attendance Logs / punches, and the reducer *)
(* that turns unsynced punches into Employee Checkin rows, and the daily   *)
(* report that totals a day's punches.                                     *)
(*                                                                         *)
(* Every database statement of the two handlers is one step of a process,  *)
(* so that the same steps serve the sequential specification (one run at a *)
(* time) and the concurrent ones (interleaved runs).  A write is visible   *)
(* to every other process as soon as it is made.                           *)
(***************************************************************************)
EXTENDS Integers, Sequences, FiniteSets, TLC

VARIABLES
    logs,       \* tabBiometric Attendance Log
    punches,    \* tabBiometric Attendance Punch Table
    checkins,   \* tabEmployee Checkin
    employees,  \* tabEmployee: attendance_device_id and status of each employee
    loc,        \* per process: the running handler's position and local variables
    result,     \* what the last completed run returned (or how it failed)
    snap,       \* the tables as they were when the last run started
    ops         \* number of runs and mapping changes started so far

vars == <<logs, punches, checkins, employees, loc, result, snap, ops>>

-----------------------------------------------------------------------------
(* Bounds and program constants *)

MaxOps == 4

\* Saves that may fail within one run.
MaxFailures == 1

\* Events a device may record while one sync is paging it.
MaxAppended == 1

VolumeCeiling == 1500

batch_size == 30

HTTP_OK == 200

\* The status codes a device answers with: 200, or any other (one stands for all).
Statuses == {HTTP_OK, HTTP_OK + 300}

Procs == {1, 2}

Employees == {"EMP-A", "EMP-B"}

NoName == <<>>

NoEmployee == ""

\* Schema flags read with frappe.db.has_column; the app's patches add the columns.
log_has_device_id == TRUE
punch_has_device_id == TRUE
punch_has_employee_checkin == TRUE
checkin_has_device_id == TRUE
checkin_has_biometric_punch == TRUE
checkin_has_latitude == TRUE
checkin_has_longitude == TRUE

-----------------------------------------------------------------------------
(* Device events.  employeeNoString 0 stands for a missing or empty number; *)
(* time is <<>> when missing, else <<date, time of day, rest>> where rest   *)
(* is what follows the first 19 characters (fraction, UTC offset).          *)

NoTime == <<>>

Ev(e, d, t) == [employeeNoString |-> e, time |-> <<d, t, 0>>]

EvRest(e, d, t, r) == [employeeNoString |-> e, time |-> <<d, t, r>>]

EventLists ==
    { <<>>,
      << Ev(1, 1, 2) >>,
      << Ev(1, 1, 1), Ev(1, 1, 2), Ev(1, 1, 3) >>,
      << Ev(1, 1, 1), EvRest(1, 1, 1, 1), Ev(2, 1, 1) >>,
      << Ev(2, 2, 1), Ev(0, 1, 2), [employeeNoString |-> 1, time |-> NoTime], Ev(2, 2, 3) >> }

Feed(l, t) == [events |-> l, totalMatches |-> t]

\* What a device answers: its matching events and the totalMatches it reports:
\* the length of the list, or a count at or above the ceiling for a device that
\* holds more events than the list shows.
Feeds ==
    { Feed(l, Len(l)) : l \in EventLists } \cup
    { Feed(<< Ev(1, 1, 2) >>, VolumeCeiling), Feed(<< Ev(1, 1, 2) >>, VolumeCeiling + 1) }

\* A busy gate: n events of two employees on one date, each at its own second.
LongList(n) == [k \in 1..n |-> Ev(1 + (k % 2), 1, k)]

\* The busy gate holds no event, exactly one page, or just over one or two pages.
BusyFeeds ==
    { Feed(LongList(n), n) :
        n \in { 0, batch_size, batch_size + 1, 2 * batch_size + 1 } }

\* The second device is a side door that sees little traffic.
FeedsOf(ip) ==
    IF ip = "10.0.0.1" THEN Feeds
    ELSE IF ip = "10.0.0.4" THEN BusyFeeds
    ELSE { Feed(<<>>, 0), Feed(<< Ev(1, 1, 2) >>, VolumeCeiling),
           Feed(<< Ev(1, 1, 1) >>, VolumeCeiling + 1) }

\* event_timestamp[:19] parsed with "%Y-%m-%dT%H:%M:%S": the rest is dropped.
event_datetime_full(event_timestamp) ==
    [date |-> event_timestamp[1], time |-> event_timestamp[2] * 10 + event_timestamp[3]]

event_datetime(event_timestamp) ==
    [date |-> event_timestamp[1], time |-> event_timestamp[2]]

Min(S) == CHOOSE x \in S : \A y \in S : x <= y

Max(S) == CHOOSE x \in S : \A y \in S : x >= y

-----------------------------------------------------------------------------
(* Settings: the main endpoint and the rows of the devices child table *)

NoIp == ""

Row(ip, active) == [device |-> ip, ip_address |-> ip, is_active |-> active]

\* Only the main endpoint is configured.
MainOnly == [ip |-> "10.0.0.1", devices |-> <<>>]

\* The main endpoint is the side door.
SideOnly == [ip |-> "10.0.0.2", devices |-> <<>>]

\* The main endpoint is the busy gate.
BusyOnly == [ip |-> "10.0.0.4", devices |-> <<>>]

SettingsChoices ==
    { MainOnly,
      [ip |-> "10.0.0.9", devices |-> << Row("10.0.0.2", 1), Row("10.0.0.3", 0), Row("10.0.0.1", 1) >>],
      [ip |-> NoIp,       devices |-> << Row("10.0.0.2", 0), Row(NoIp, 1) >>] }

\* Every settings document with up to MaxRows device rows over two hosts.
MaxRows == 2

Hosts == {NoIp, "10.0.0.2", "10.0.0.3"}

RowsUpTo(n) ==
    UNION { [1..k -> { Row(ip, a) : ip \in Hosts, a \in {0, 1} }] : k \in 0..n }

AllSettings ==
    { [ip |-> ip, devices |-> rows] : ip \in {NoIp, "10.0.0.2"}, rows \in RowsUpTo(MaxRows) }

NoSettings == [ip |-> NoIp, devices |-> <<>>]

RECURSIVE active_rows(_)
active_rows(rows) ==
    IF rows = <<>> THEN <<>>
    ELSE LET d == Head(rows) IN
         IF d.is_active = 1 /\ d.ip_address # NoIp
         THEN <<d.ip_address>> \o active_rows(Tail(rows))
         ELSE active_rows(Tail(rows))

get_device_configs_any_row(settings) ==
    LET devices == [k \in 1..Len(settings.devices) |-> settings.devices[k].ip_address] IN
    IF devices = <<>> /\ settings.ip # NoIp THEN <<settings.ip>> ELSE devices

get_device_configs(settings) ==
    LET devices == active_rows(settings.devices) IN
    IF devices = <<>> /\ settings.ip # NoIp THEN <<settings.ip>> ELSE devices

-----------------------------------------------------------------------------
(* Geolocation: get_geolocation *)

\* The fallback coordinates, in units of 1e-7 degree.
DEFAULT_LAT == 314812872
DEFAULT_LON == 742520218

\* One part of loc.split(","): float() parses it to value, or raises ValueError.
Part(numeric, value) == [numeric |-> numeric, value |-> value]

\* What requests.get("https://ipinfo.io/json", timeout=5) does: it raises (timeout,
\* no connection), or answers with a status and a body whose "loc", split at the
\* commas, is parts (<<>>: no "loc" in the body, or an empty one).
Response(raised, status, parts) == [raised |-> raised, status |-> status, loc |-> parts]

NoResponse == Response(TRUE, 0, <<>>)

\* The answer for a site whose address is located.
Located == Response(FALSE, HTTP_OK, << Part(TRUE, 315497000), Part(TRUE, 743436000) >>)

GeoResponses ==
    { NoResponse,
      Located,
      Response(FALSE, 429, << Part(TRUE, 315497000), Part(TRUE, 743436000) >>),
      Response(FALSE, HTTP_OK, <<>>),
      Response(FALSE, HTTP_OK, << Part(FALSE, 0) >>),
      Response(FALSE, HTTP_OK, << Part(TRUE, 315497000), Part(FALSE, 0) >>),
      Response(FALSE, HTTP_OK, << Part(TRUE, 1), Part(TRUE, 2), Part(TRUE, 3) >>) }

get_geolocation_any_status(r) ==
    IF r.raised THEN << DEFAULT_LAT, DEFAULT_LON >>
    ELSE IF r.loc = <<>> THEN << DEFAULT_LAT, DEFAULT_LON >>
    ELSE IF Len(r.loc) # 2 THEN << DEFAULT_LAT, DEFAULT_LON >>
    ELSE IF ~ r.loc[1].numeric \/ ~ r.loc[2].numeric THEN << DEFAULT_LAT, DEFAULT_LON >>
    ELSE << r.loc[1].value, r.loc[2].value >>

get_geolocation(r) ==
    IF r.raised THEN << DEFAULT_LAT, DEFAULT_LON >>
    ELSE IF r.status # HTTP_OK THEN << DEFAULT_LAT, DEFAULT_LON >>
    ELSE IF r.loc = <<>> THEN << DEFAULT_LAT, DEFAULT_LON >>
    ELSE IF Len(r.loc) # 2 THEN << DEFAULT_LAT, DEFAULT_LON >>
    ELSE IF ~ r.loc[1].numeric \/ ~ r.loc[2].numeric THEN << DEFAULT_LAT, DEFAULT_LON >>
    ELSE << r.loc[1].value, r.loc[2].value >>

-----------------------------------------------------------------------------
(* Process-local state *)

NoDoc == [name |-> NoName, employee_no |-> 0, event_date |-> 0, device_id |-> NoIp, punch_table |-> {}]

Idle ==
    [ op |-> "none", pc |-> "idle",
      \* device sync
      settings |-> NoSettings, combined |-> FALSE, committed |-> 0,
      devs |-> <<>>, idx |-> 0, feed |-> <<>>, feeds |-> <<>>,
      position |-> 0, page |-> <<>>, i |-> 0, requests |-> 0,
      doc |-> NoDoc, count |-> 0, skipped |-> 0,
      total_count |-> 0, total_skipped |-> 0, failures |-> 0,
      asked |-> <<>>,
      \* reducer
      rows |-> {}, todo |-> {}, key |-> <<>>, employee |-> NoEmployee,
      first |-> NoName, last |-> NoName, cur |-> NoName, exists |-> FALSE,
      created |-> 0, already_synced |-> 0, overlapped |-> FALSE,
      geo |-> NoResponse, lookups |-> 0, latitude |-> 0, longitude |-> 0 ]

NoResult ==
    [ op |-> "none", out |-> "none", a |-> 0, b |-> 0, devs |-> <<>>, feeds |-> <<>>,
      failures |-> 0, requests |-> 0, commits |-> 0, overlapped |-> FALSE, prev |-> <<>>,
      asked |-> <<>>, left |-> {}, was_left |-> {}, settings |-> NoSettings,
      combined |-> FALSE, device_commits |-> 0, enqueued |-> <<>>, window |-> <<>>,
      geo |-> NoResponse, lookups |-> 0 ]

DB == [logs |-> logs, punches |-> punches, checkins |-> checkins]

AllIdle == \A q \in Procs : loc[q].pc = "idle"

NoDeviceSync == \A q \in Procs : loc[q].op # "device"

Init ==
    /\ logs = {}
    /\ punches = {}
    /\ checkins = {}
    /\ employees = [e \in Employees |->
            IF e = "EMP-A" THEN [attendance_device_id |-> 1, status |-> "Active"]
                           ELSE [attendance_device_id |-> 0, status |-> "Active"]]
    /\ loc = [p \in Procs |-> Idle]
    /\ result = NoResult
    /\ snap = [logs |-> {}, punches |-> {}, checkins |-> {}]
    /\ ops = 0

-----------------------------------------------------------------------------
(* Device sync: sync_attendance_device_only and _sync_for_single_device *)

\* The join of the unsynced punches with their parent logs.
UnsyncedRowsOf(P, L) ==
    { [ punch_name |-> x.name, punch_time |-> x.punch_time,
        punch_device_id |-> x.device_id, log_name |-> l.name,
        employee_no |-> l.employee_no, event_date |-> l.event_date,
        log_device_id |-> l.device_id ] :
      <<x, l>> \in { y \in P \X L :
                       y[2].name = y[1].parent /\ y[1].synced_to_employee_checkin = 0 } }

UnsyncedRows == UnsyncedRowsOf(punches, logs)

GroupKeys(rows) == { <<r.employee_no, r.event_date>> : r \in rows }

Set(p, l) == loc' = [loc EXCEPT ![p] = l]

\* What a finished run leaves for its caller: the returned pair (a, b) or the error,
\* and, when the run before it was the same operation on the same device answers
\* with nothing in between, that run's pair.  asked is the run's HTTP requests;
\* left is the groups a reducer run leaves unsynced and was_left those the reducer
\* run before it had left (only mapping changes in between).
ResultOf(l, out, a, b, commits) ==
    [ op |-> l.op, out |-> out, a |-> a, b |-> b,
      devs |-> l.devs, feeds |-> l.feeds,
      failures |-> l.failures, requests |-> l.requests,
      commits |-> commits, overlapped |-> l.overlapped,
      prev |-> IF /\ out = "ok" /\ result.op = l.op /\ result.out = "ok"
                  /\ result.devs = l.devs /\ result.feeds = l.feeds
               THEN << [a |-> result.a, b |-> result.b, failures |-> result.failures] >>
               ELSE <<>>,
      asked |-> l.asked,
      left |-> IF l.op = "reduce" THEN GroupKeys(UnsyncedRows) ELSE {},
      was_left |-> IF l.op = "reduce" THEN result.left ELSE {},
      settings |-> l.settings,
      combined |-> l.combined, device_commits |-> l.committed,
      enqueued |-> <<>>, window |-> <<>>,
      geo |-> l.geo, lookups |-> l.lookups ]

\* The handler is left: by returning (out = "ok") or by an exception.
Return(p, l, out, a, b, commits) ==
    /\ loc' = [loc EXCEPT ![p] = Idle]
    /\ result' = ResultOf(l, out, a, b, commits)

\* sync_punches_to_employee_checkin is entered with the local state base0: the
\* geolocation is looked up (the lookup is answered by one of responses) and the
\* unsynced punches are read; with none it returns 0, 0 at once.
ReducerBegin(p, base0, responses) ==
    \E r \in responses :
    LET rows == UnsyncedRows
        overlap == \E q \in Procs : q # p /\ loc[q].pc \notin {"idle", "queued"}
        base == [base0 EXCEPT !.geo = r, !.lookups = @ + 1,
                              !.latitude = get_geolocation(r)[1],
                              !.longitude = get_geolocation(r)[2]]
    IN  IF rows = {}
        THEN Return(p, [base EXCEPT !.op = "reduce", !.overlapped = overlap], "ok", 0, 0, 0)
        ELSE /\ loc' = [q \in Procs |->
                          IF q = p
                          THEN [base EXCEPT !.op = "reduce", !.pc = "group", !.rows = rows,
                                            !.todo = GroupKeys(rows), !.overlapped = overlap]
                          ELSE [loc[q] EXCEPT !.overlapped =
                                                @ \/ loc[q].pc \notin {"idle", "queued"}]]
             /\ UNCHANGED result

\* sync_attendance calls the reducer after sync_attendance_device_only has returned;
\* an exception of the device pass leaves sync_attendance too.
reducer_follows_any(out) == TRUE

reducer_follows(out) == out = "ok"

\* A run ends.  The device pass of sync_attendance that has returned is followed, in
\* the same handler, by the reducer.
Complete(p, l, out, a, b, commits) ==
    IF l.combined /\ l.op = "device" /\ reducer_follows(out)
    THEN ReducerBegin(p, [Idle EXCEPT !.combined = TRUE, !.committed = commits,
                                      !.settings = l.settings, !.devs = l.devs,
                                      !.feeds = l.feeds, !.asked = l.asked,
                                      !.total_count = a, !.total_skipped = b,
                                      !.failures = l.failures],
                     {Located})
    ELSE Return(p, l, out, a, b, commits)

\* The loop over device_configs moves on: totals are added, the next device is probed,
\* and after the last one the pass commits.
next_device_commit(l, c, s) ==
    [ l EXCEPT !.total_count = @ + c, !.total_skipped = @ + s,
               !.doc = NoDoc, !.page = <<>>, !.i = 0, !.position = 0,
               !.count = 0, !.skipped = 0, !.feed = <<>>, !.requests = 0,
               !.pc = "commit" ]

next_device(l, c, s) ==
    [ l EXCEPT !.total_count = @ + c, !.total_skipped = @ + s,
               !.doc = NoDoc, !.page = <<>>, !.i = 0, !.position = 0,
               !.count = 0, !.skipped = 0, !.feed = <<>>, !.requests = 0,
               !.idx = IF l.idx = Len(l.devs) THEN @ ELSE @ + 1,
               !.pc = IF l.idx = Len(l.devs) THEN "commit" ELSE "probe" ]

\* After one event of the page: the next event, the next page, or the end of the device.
next_event_one_page(l) ==
    IF l.i < Len(l.page)
    THEN [l EXCEPT !.i = @ + 1, !.doc = NoDoc, !.pc = "event"]
    ELSE next_device(l, l.count, l.skipped)

next_event_skip(l) ==
    IF l.i < Len(l.page)
    THEN [l EXCEPT !.i = @ + 1, !.doc = NoDoc, !.pc = "event"]
    ELSE IF Len(l.page) < batch_size
         THEN next_device(l, l.count, l.skipped)
         ELSE [l EXCEPT !.position = @ + Len(l.page) + 1, !.doc = NoDoc, !.page = <<>>,
                        !.i = 0, !.pc = "page"]

next_event_until_empty(l) ==
    IF l.i < Len(l.page)
    THEN [l EXCEPT !.i = @ + 1, !.doc = NoDoc, !.pc = "event"]
    ELSE [l EXCEPT !.position = @ + Len(l.page), !.doc = NoDoc, !.page = <<>>,
                   !.i = 0, !.pc = "page"]

next_event(l) ==
    IF l.i < Len(l.page)
    THEN [l EXCEPT !.i = @ + 1, !.doc = NoDoc, !.pc = "event"]
    ELSE IF Len(l.page) < batch_size
         THEN next_device(l, l.count, l.skipped)
         ELSE [l EXCEPT !.position = @ + Len(l.page), !.doc = NoDoc, !.page = <<>>,
                        !.i = 0, !.pc = "page"]

\* InfoList of the page request at searchResultPosition = position, maxResults = n.
InfoList(events, position, n) ==
    SubSeq(events, position + 1, IF position + n < Len(events) THEN position + n ELSE Len(events))

\* One HTTP request to a device and what came back.
Asked(ip, position, maxResults, status, returned) ==
    [ ip |-> ip, searchResultPosition |-> position, maxResults |-> maxResults,
      status |-> status, returned |-> returned ]

\* The device pass is entered: the devices are resolved, and with none it fails.
DevicePassBegin(p, choices, combined) ==
    \E settings \in choices :
      LET device_configs == get_device_configs(settings) IN
      IF device_configs = <<>>
      THEN Complete(p, [Idle EXCEPT !.op = "device", !.combined = combined,
                                    !.settings = settings],
                    "NoDevice", 0, 0, 0)
      ELSE /\ Set(p, [Idle EXCEPT !.op = "device", !.pc = "probe", !.combined = combined,
                                  !.settings = settings,
                                  !.devs = device_configs, !.idx = 1])
           /\ UNCHANGED result

DeviceSyncStart(p, choices) ==
    /\ loc[p].pc = "idle"
    /\ ops < MaxOps
    /\ ops' = ops + 1
    /\ snap' = DB
    /\ UNCHANGED <<logs, punches, checkins, employees>>
    /\ DevicePassBegin(p, choices, FALSE)

\* sync_attendance: the device pass, then the reducer.
SyncAttendanceStart(p, choices) ==
    /\ loc[p].pc = "idle"
    /\ ops < MaxOps
    /\ ops' = ops + 1
    /\ snap' = DB
    /\ UNCHANGED <<logs, punches, checkins, employees>>
    /\ DevicePassBegin(p, choices, TRUE)

\* if total_records > 1500: frappe.throw
too_many_from(total_records) == total_records >= VolumeCeiling

too_many(total_records) == total_records > VolumeCeiling

\* The initial fetch with maxResults = 1, read only for totalMatches.
DeviceProbe(p) ==
    /\ loc[p].pc = "probe"
    /\ UNCHANGED <<logs, punches, checkins, employees, snap, ops>>
    /\ \E status \in Statuses :
         IF status # HTTP_OK
         THEN Complete(p, [loc[p] EXCEPT !.asked = Append(@,
                              Asked(loc[p].devs[loc[p].idx], 0, 1, status, 0))],
                       "TransportError", 0, 0, 0)
         ELSE \E f \in FeedsOf(loc[p].devs[loc[p].idx]) :
                LET l == [loc[p] EXCEPT !.feed = f, !.feeds = Append(@, f),
                                        !.asked = Append(@,
                                            Asked(loc[p].devs[loc[p].idx], 0, 1, status,
                                                  Len(InfoList(f.events, 0, 1))))] IN
                IF f.totalMatches = 0
                THEN Set(p, next_device(l, 0, 0)) /\ UNCHANGED result
                ELSE IF too_many(f.totalMatches)
                THEN Complete(p, l, "VolumeExceeded", 0, 0, 0)
                ELSE Set(p, [l EXCEPT !.pc = "page"]) /\ UNCHANGED result

\* One page request of the while loop.
DevicePage(p) ==
    /\ loc[p].pc = "page"
    /\ UNCHANGED <<logs, punches, checkins, employees, snap, ops>>
    /\ \E status \in Statuses :
         IF status # HTTP_OK
         THEN Complete(p, [loc[p] EXCEPT !.asked = Append(@,
                              Asked(loc[p].devs[loc[p].idx], loc[p].position, batch_size,
                                    status, 0))],
                       "TransportError", 0, 0, 0)
         ELSE LET l == loc[p]
                  events == InfoList(l.feed.events, l.position, batch_size)
                  r == [l EXCEPT !.requests = @ + 1,
                                 !.asked = Append(@, Asked(l.devs[l.idx], l.position,
                                                           batch_size, status, Len(events)))]
              IN  /\ UNCHANGED result
                  /\ IF events = <<>>
                     THEN Set(p, next_device(r, l.count, l.skipped))
                     ELSE Set(p, [r EXCEPT !.page = events, !.i = 1, !.pc = "event"])

LogsFor(emp_no, event_date) ==
    {x \in logs : x.employee_no = emp_no /\ x.event_date = event_date}

\* frappe.get_all("Biometric Attendance Log", filters = {employee_no, event_date})
get_all_none(emp_no, event_date) == {}

get_all(emp_no, event_date) == LogsFor(emp_no, event_date)

\* SELECT COUNT(*) ... WHERE parent = doc.name AND punch_time = event time, > 0
existing_punch_never(parent, punch_time) == FALSE

existing_punch(parent, punch_time) ==
    \E x \in punches : x.parent = parent /\ x.punch_time = punch_time

\* frappe.get_doc loads the log with its child rows.
PunchesOf_none(parent) == {}

PunchesOf(parent) == {x \in punches : x.parent = parent}

\* One event of the page: the log is looked up (or a new document made) and the
\* duplicate query is run against the stored punches of that log.
DeviceEventRead(p) ==
    /\ loc[p].pc = "event"
    /\ UNCHANGED <<logs, punches, checkins, employees, snap, ops, result>>
    /\ LET l == loc[p]
           log == l.page[l.i]
           emp_no == log.employeeNoString
           ip == l.devs[l.idx]
       IN  IF emp_no = 0 \/ log.time = NoTime
           THEN Set(p, next_event(l))
           ELSE LET dt == event_datetime(log.time)
                    attendance_log == get_all(emp_no, dt.date)
                IN  \E found \in (IF attendance_log = {} THEN {NoDoc} ELSE attendance_log) :
                      LET doc == [ name |-> found.name,
                                   employee_no |-> emp_no,
                                   event_date |-> dt.date,
                                   device_id |-> IF log_has_device_id THEN ip ELSE found.device_id,
                                   punch_table |-> PunchesOf(found.name) ]
                      IN  IF existing_punch(doc.name, dt.time)
                          THEN Set(p, next_event([l EXCEPT !.skipped = @ + 1]))
                          ELSE Set(p, [l EXCEPT !.doc = doc, !.pc = "save"])

NewLogName(emp_no, event_date) ==
    <<emp_no, event_date, 1 + Cardinality(LogsFor(emp_no, event_date))>>

NewPunchName(parent, punch_time) ==
    <<parent, punch_time,
      1 + Cardinality({x \in punches : x.name[1] = parent /\ x.punch_time = punch_time})>>

\* except Exception: frappe.log_error(...); continue
save_failed_abort(l) == [l EXCEPT !.failures = @ + 1, !.pc = "commit"]

save_failed(l) == next_event([l EXCEPT !.failures = @ + 1])

\* doc.append("punch_table", punch_row); doc.save(): the document is written with the
\* child rows it holds in memory; a failing save writes nothing and is logged.
DeviceEventSave(p) ==
    /\ loc[p].pc = "save"
    /\ UNCHANGED <<checkins, employees, snap, ops, result>>
    /\ LET l == loc[p]
           doc == l.doc
           dt == event_datetime(l.page[l.i].time)
           name == IF doc.name = NoName THEN NewLogName(doc.employee_no, doc.event_date)
                   ELSE doc.name
           punch_row == [ name |-> NewPunchName(name, dt.time),
                          parent |-> name,
                          punch_time |-> dt.time,
                          punch_type |-> "Auto",
                          device_id |-> IF punch_has_device_id THEN l.devs[l.idx] ELSE NoIp,
                          synced_to_employee_checkin |-> 0,
                          employee_checkin |-> NoName ]
       IN  \E saved \in (IF l.failures < MaxFailures THEN BOOLEAN ELSE {TRUE}) :
             IF saved
             THEN /\ logs' = {x \in logs : x.name # name} \cup
                             { [ name |-> name, employee_no |-> doc.employee_no,
                                 event_date |-> doc.event_date, device_id |-> doc.device_id ] }
                  /\ punches' = {x \in punches : x.parent # name} \cup doc.punch_table
                                \cup {punch_row}
                  /\ Set(p, next_event([l EXCEPT !.count = @ + 1]))
             ELSE /\ UNCHANGED <<logs, punches>>
                  /\ Set(p, save_failed(l))

\* frappe.db.commit() and the returned message.
DeviceCommit(p) ==
    /\ loc[p].pc = "commit"
    /\ UNCHANGED <<logs, punches, checkins, employees, snap, ops>>
    /\ Complete(p, loc[p], "ok", loc[p].total_count, loc[p].total_skipped, 1)

\* While a sync is paging a device, the device records a further event, at the end
\* of its list.
DeviceAppend(p) ==
    /\ loc[p].pc \in {"page", "event", "save"}
    /\ Len(loc[p].feed.events) < Len(loc[p].feeds[Len(loc[p].feeds)].events) + MaxAppended
    /\ UNCHANGED <<logs, punches, checkins, employees, snap, ops, result>>
    /\ Set(p, [loc[p] EXCEPT !.feed.events =
                  Append(@, Ev(1 + ((Len(@) + 1) % 2), 1, Len(@) + 1))])

DeviceStep(p) ==
    \/ DeviceProbe(p)
    \/ DevicePage(p)
    \/ DeviceEventRead(p)
    \/ DeviceEventSave(p)
    \/ DeviceCommit(p)

-----------------------------------------------------------------------------
(* Reducer: sync_punches_to_employee_checkin *)

\* groups.items() iterates in the order of the query: employee_no, then event_date.
FirstKey(keys) ==
    CHOOSE k \in keys : \A j \in keys : k[1] < j[1] \/ (k[1] = j[1] /\ k[2] <= j[2])

GroupOf(rows, key) == { r \in rows : r.employee_no = key[1] /\ r.event_date = key[2] }

\* frappe.db.get_value("Employee", {"attendance_device_id": emp_no}, ["name", "status"])
emp_row_any(emp_no) == Employees

emp_row_none(emp_no) == {}

emp_row(emp_no) == { e \in Employees : employees[e].attendance_device_id = emp_no }

\* frappe.db.set_value on one punch row (no row of that name: nothing changes).
set_value_unsynced(table, name, synced, checkin) == table

set_value(table, name, synced, checkin) ==
    { IF x.name = name
      THEN [x EXCEPT !.synced_to_employee_checkin = synced,
                     !.employee_checkin = IF checkin = NoName THEN @ ELSE checkin]
      ELSE x : x \in table }

mark_synced_none(table, names) == table

RECURSIVE mark_synced(_, _)
mark_synced(table, names) ==
    IF names = {} THEN table
    ELSE LET n == CHOOSE n \in names : TRUE
         IN  mark_synced(set_value(table, n, 1, NoName), names \ {n})

\* get_datetime(f"{event_date} {punch_time}")
punch_dt_date_only(event_date, punch_time) == <<event_date, 0>>

punch_dt(event_date, punch_time) == <<event_date, punch_time>>

\* frappe.db.exists("Employee Checkin", {"employee": employee, "time": punch_dt})
checkin_exists_never(employee, time) == FALSE

checkin_exists(employee, time) ==
    \E c \in checkins : c.employee = employee /\ c.time = time

NewCheckinName(employee, time) ==
    <<employee, time,
      1 + Cardinality({c \in checkins : c.employee = employee /\ c.time = time})>>

ReducerStart(p, responses) ==
    /\ loc[p].pc = "idle"
    /\ ops < MaxOps
    /\ ops' = ops + 1
    /\ snap' = DB
    /\ UNCHANGED <<logs, punches, checkins, employees>>
    /\ ReducerBegin(p, Idle, responses)

\* The head of the loop over the groups: the employee is resolved, the group is
\* skipped or its first and last punch are picked; after the last group, commit.
ReducerGroup(p) ==
    /\ loc[p].pc = "group"
    /\ UNCHANGED <<logs, punches, checkins, employees, snap, ops>>
    /\ LET l == loc[p] IN
       IF l.todo = {}
       THEN Complete(p, l, "ok", l.created, l.already_synced, 1)
       ELSE LET key == FirstKey(l.todo)
                emp_no == key[1]
                group_punches == GroupOf(l.rows, key)
                found == emp_row(emp_no)
                skip == [l EXCEPT !.todo = @ \ {key}]
            IN  /\ UNCHANGED result
                /\ IF emp_no = 0 \/ found = {}
                   THEN Set(p, skip)
                   ELSE \E e \in found :
                          IF employees[e].status # "Active"
                          THEN Set(p, skip)
                          ELSE \E first \in group_punches, last \in group_punches :
                                 /\ \A r \in group_punches :
                                        /\ first.punch_time <= r.punch_time
                                        /\ r.punch_time <= last.punch_time
                                 /\ Cardinality(group_punches) > 1 => first # last
                                 /\ Set(p, [l EXCEPT !.key = key, !.employee = e,
                                                     !.first = first.punch_name,
                                                     !.last = last.punch_name,
                                                     !.cur = first.punch_name,
                                                     !.pc = "exists"])

RowNamed(rows, name) == CHOOSE r \in rows : r.punch_name = name

\* _create_checkin_for_punch, first half: the duplicate check.
ReducerExists(p) ==
    /\ loc[p].pc = "exists"
    /\ UNCHANGED <<logs, punches, checkins, employees, snap, ops, result>>
    /\ LET l == loc[p]
           punch == RowNamed(l.rows, l.cur)
       IN  Set(p, [l EXCEPT !.exists = checkin_exists(l.employee,
                                          punch_dt(l.key[2], punch.punch_time)),
                            !.pc = "write"])

\* After a boundary punch: the last punch if it is another one, else the middle
\* punches are marked synced and the loop goes to the next group.
after_checkin(l, table) ==
    IF l.cur = l.first /\ l.last # l.first
    THEN <<[l EXCEPT !.cur = l.last, !.pc = "exists"], table>>
    ELSE LET middle == { r.punch_name : r \in
                           { r \in GroupOf(l.rows, l.key) :
                               r.punch_name \notin {l.first, l.last} } }
         IN  << [l EXCEPT !.todo = @ \ {l.key}, !.key = <<>>, !.employee = NoEmployee,
                          !.first = NoName, !.last = NoName, !.cur = NoName,
                          !.exists = FALSE, !.pc = "group"],
                mark_synced(table, middle) >>

\* _create_checkin_for_punch, second half: mark as already synced, or insert the
\* Employee Checkin and mark and link the punch.
ReducerWrite(p) ==
    /\ loc[p].pc = "write"
    /\ UNCHANGED <<logs, employees, snap, ops, result>>
    /\ LET l == loc[p]
           punch == RowNamed(l.rows, l.cur)
           time == punch_dt(l.key[2], punch.punch_time)
           log_type == IF l.cur = l.first THEN "IN" ELSE "OUT"
           device_id == IF punch.punch_device_id # NoIp THEN punch.punch_device_id
                        ELSE punch.log_device_id
           checkin == [ name |-> NewCheckinName(l.employee, time),
                        employee |-> l.employee,
                        time |-> time,
                        log_type |-> log_type,
                        device_id |-> IF checkin_has_device_id THEN device_id ELSE NoIp,
                        biometric_punch |-> IF checkin_has_biometric_punch
                                            THEN punch.punch_name ELSE NoName,
                        latitude |-> IF checkin_has_latitude THEN l.latitude ELSE 0,
                        longitude |-> IF checkin_has_longitude THEN l.longitude ELSE 0 ]
       IN  IF l.exists
           THEN LET nxt == after_checkin([l EXCEPT !.already_synced = @ + 1],
                                         set_value(punches, l.cur, 1, NoName))
                IN  /\ UNCHANGED checkins
                    /\ punches' = nxt[2]
                    /\ Set(p, nxt[1])
           ELSE LET nxt == after_checkin([l EXCEPT !.created = @ + 1],
                                         set_value(punches, l.cur, 1,
                                            IF punch_has_employee_checkin
                                            THEN checkin.name ELSE NoName))
                IN  /\ checkins' = checkins \cup {checkin}
                    /\ punches' = nxt[2]
                    /\ Set(p, nxt[1])

ReducerStep(p) ==
    \/ ReducerGroup(p)
    \/ ReducerExists(p)
    \/ ReducerWrite(p)

-----------------------------------------------------------------------------
(* The scheduler: scheduled_attendance_sync and the jobs it enqueues *)

BACK_DAYS == 3

\* datetime.now().date()
Days == {3, 4}

\* The calls of the try block that may raise, in their order.
SchedSteps == << "get_doc", "save", "enqueue_device", "enqueue_reducer" >>

StepIndex(step) == CHOOSE i \in 1..Len(SchedSteps) : SchedSteps[i] = step

\* The step was completed, when the block fails at fail_at ("none": nowhere).
Done(step, fail_at) == fail_at = "none" \/ StepIndex(step) < StepIndex(fail_at)

\* The handler "except Exception" encloses the call.
caught_settings_only(step) == step \in {"get_doc", "save"}

caught(step) == step \in { SchedSteps[i] : i \in 1..Len(SchedSteps) }

\* A job waiting in the queue "long" for a worker.
Queued(method) == [Idle EXCEPT !.pc = "queued", !.op = method]

scheduled_attendance_sync ==
    /\ AllIdle
    /\ ops < MaxOps
    /\ ops' = ops + 1
    /\ UNCHANGED <<logs, punches, checkins, employees, snap>>
    /\ \E fail_at \in { SchedSteps[i] : i \in 1..Len(SchedSteps) } \cup {"none"},
          today \in Days :
         LET jobs == (IF Done("enqueue_device", fail_at) THEN <<"device">> ELSE <<>>)
                     \o (IF Done("enqueue_reducer", fail_at) THEN <<"reduce">> ELSE <<>>)
         IN  /\ loc' = [p \in Procs |-> IF p <= Len(jobs) THEN Queued(jobs[p]) ELSE loc[p]]
             /\ result' = [NoResult EXCEPT
                              !.op = "scheduled",
                              !.out = IF fail_at = "none" THEN "ok"
                                      ELSE IF caught(fail_at) THEN "logged" ELSE "raised",
                              !.enqueued = jobs,
                              !.window = IF Done("save", fail_at)
                                         THEN << today - (BACK_DAYS - 1), today >> ELSE <<>>,
                              !.left = result.left]

\* A worker takes a job from the queue and runs its method.
JobStart(p) ==
    /\ loc[p].pc = "queued"
    /\ snap' = DB
    /\ UNCHANGED <<logs, punches, checkins, employees, ops>>
    /\ IF loc[p].op = "device"
       THEN DevicePassBegin(p, {SideOnly}, FALSE)
       ELSE ReducerBegin(p, Idle, {Located})

-----------------------------------------------------------------------------
(* The employee mapping is maintained outside: one employee's device id or *)
(* status changes (attendance_device_id is unique among employees).        *)

MappingChange ==
    /\ AllIdle
    /\ ops < MaxOps
    /\ ops' = ops + 1
    /\ UNCHANGED <<logs, punches, checkins, loc, snap>>
    /\ result' = [NoResult EXCEPT !.op = "mapping", !.left = result.left]
    /\ \E e \in Employees, id \in 0..2, st \in {"Active", "Left"} :
         /\ id # employees[e].attendance_device_id \/ st # employees[e].status
         /\ id # 0 => \A o \in Employees \ {e} : employees[o].attendance_device_id # id
         /\ employees' = [employees EXCEPT ![e] = [attendance_device_id |-> id, status |-> st]]

-----------------------------------------------------------------------------
(* Specifications *)

\* Runs do not overlap: a run starts only when no other is under way.
Next ==
    \/ AllIdle /\ DeviceSyncStart(1, {MainOnly})
    \/ DeviceStep(1)
    \/ AllIdle /\ ReducerStart(1, {Located})
    \/ ReducerStep(1)
    \/ MappingChange

Spec == Init /\ [][Next]_vars

\* Device syncs and reducer runs, one at a time, under an unchanging employee mapping.
NextRuns ==
    \/ AllIdle /\ DeviceSyncStart(1, {MainOnly})
    \/ DeviceStep(1)
    \/ AllIdle /\ ReducerStart(1, {Located})
    \/ ReducerStep(1)

SpecRuns == Init /\ [][NextRuns]_vars

\* Two reducer invocations may overlap each other (never a device sync).
NextConc ==
    \/ AllIdle /\ DeviceSyncStart(1, {MainOnly})
    \/ DeviceStep(1)
    \/ \E p \in Procs :
         \/ NoDeviceSync /\ ReducerStart(p, {Located})
         \/ ReducerStep(p)

SpecConc == Init /\ [][NextConc]_vars

\* Device syncs only, over every configuration of the devices.
NextDev ==
    \/ AllIdle /\ DeviceSyncStart(1, SettingsChoices)
    \/ DeviceStep(1)

SpecDev == Init /\ [][NextDev]_vars

\* The first device sync of a new site, over every settings document of AllSettings.
NextConfig ==
    \/ ops = 0 /\ DeviceSyncStart(1, AllSettings)
    \/ DeviceStep(1)

SpecConfig == Init /\ [][NextConfig]_vars

\* The button "Sync Attendance (Device + Checkin)", with the main endpoint
\* configured or no device at all.
NextCombined ==
    \/ AllIdle /\ SyncAttendanceStart(1, {MainOnly, NoSettings})
    \/ DeviceStep(1)
    \/ ReducerStep(1)

SpecCombined == Init /\ [][NextCombined]_vars

\* Device syncs and reducer runs, one at a time, with every answer of the
\* geolocation service.
NextGeo ==
    \/ AllIdle /\ DeviceSyncStart(1, {MainOnly})
    \/ DeviceStep(1)
    \/ AllIdle /\ ReducerStart(1, GeoResponses)
    \/ ReducerStep(1)

SpecGeo == Init /\ [][NextGeo]_vars

\* The scheduler and the workers of the queue.
NextSched ==
    \/ scheduled_attendance_sync
    \/ \E p \in Procs :
         \/ JobStart(p)
         \/ DeviceStep(p)
         \/ ReducerStep(p)

SpecSched == Init /\ [][NextSched]_vars

\* Two device syncs (a manual and a scheduled one) of the side door may overlap.
NextIngest ==
    \E p \in Procs :
      \/ DeviceSyncStart(p, {SideOnly})
      \/ DeviceStep(p)

SpecIngest == Init /\ [][NextIngest]_vars

\* A device sync (process 1) and a reducer run (process 2) may overlap.
NextMixed ==
    \/ DeviceSyncStart(1, {MainOnly})
    \/ DeviceStep(1)
    \/ ReducerStart(2, {Located})
    \/ ReducerStep(2)

SpecMixed == Init /\ [][NextMixed]_vars

\* The first device sync of a new site whose only device is the busy gate.
NextPage ==
    \/ ops = 0 /\ DeviceSyncStart(1, {BusyOnly})
    \/ DeviceStep(1)

SpecPage == Init /\ [][NextPage]_vars

\* The first device sync of a new site whose only device is the busy gate, which goes
\* on recording events during the sync.
NextGrow ==
    \/ ops = 0 /\ DeviceSyncStart(1, {BusyOnly})
    \/ DeviceStep(1)
    \/ DeviceAppend(1)

SpecGrow == Init /\ [][NextGrow]_vars

\* A started handler is run to its end by its worker, and every request to a device
\* ends (with an answer or, after its timeout, with an exception).
SpecPageLive == SpecPage /\ WF_vars(DeviceStep(1))

-----------------------------------------------------------------------------
(* Properties *)

Dates == {1, 2}

SameKey(c1, c2) == c1.employee = c2.employee /\ c1.time = c2.time

\* The reducer run that has just returned, with no run under way.
ReducerReturned == AllIdle /\ result.op = "reduce" /\ result.out = "ok"

\* The device sync that has just returned, with no run under way.
DeviceReturned == AllIdle /\ result.op = "device" /\ result.out = "ok"

\* C1: whatever non-overlapping device syncs, reducer runs and mapping changes have
\* happened, no two Employee Checkin rows have the same employee and time.
C1_OneCheckinPerEmployeeTime ==
    \A c1 \in checkins, c2 \in checkins : SameKey(c1, c2) => c1 = c2

\* C1 witness: a reducer run met a punch whose (employee, time) already had a
\* checkin made from another punch, and recorded it as already synced.
C1_Witness ==
    /\ ReducerReturned
    /\ result.b > 0
    /\ \E x \in punches :
         /\ x.synced_to_employee_checkin = 1
         /\ x.employee_checkin = NoName
         /\ \E c \in checkins : c.biometric_punch # x.name /\ c.time[2] = x.punch_time

\* The (employee, time) pairs that have an Employee Checkin.
CheckinKeys == { <<c.employee, c.time>> : c \in checkins }

\* C2: with two reducer invocations overlapping, each (employee, time) gets at most
\* one Employee Checkin: of two invocations handling the same punch one creates the
\* checkin and the other counts it as already synced, so the checkins the running
\* invocations count as created are checkins of distinct (employee, time) pairs.
C2_ConcurrentReducersOneWinner ==
    /\ Cardinality(checkins) = Cardinality(CheckinKeys)
    /\ loc[1].created + loc[2].created <= Cardinality(CheckinKeys)

PunchTimesOf(emp_no, event_date) ==
    { x.punch_time : x \in { y \in punches :
        \E l \in LogsFor(emp_no, event_date) : y.parent = l.name } }

CheckinsOn(e, d, log_type) ==
    { c \in checkins : c.employee = e /\ c.time[1] = d /\ c.log_type = log_type }

AllSynced(emp_no, event_date) ==
    \A x \in punches :
      (\E l \in LogsFor(emp_no, event_date) : x.parent = l.name)
      => x.synced_to_employee_checkin = 1

\* C3: after any sequence of device syncs and reducer runs (looked at once the
\* reducer has converted every stored punch of the day), each active employee has
\* on each date at most one IN checkin, at the earliest stored punch of that date,
\* and every OUT checkin of the date is at a later punch.
C3_InAtEarliestPunchOfDay ==
    AllIdle =>
      \A e \in Employees, d \in Dates :
        ( /\ employees[e].status = "Active"
          /\ employees[e].attendance_device_id # 0
          /\ AllSynced(employees[e].attendance_device_id, d) ) =>
          LET times == PunchTimesOf(employees[e].attendance_device_id, d)
              ins == CheckinsOn(e, d, "IN")
              outs == CheckinsOn(e, d, "OUT")
          IN  /\ Cardinality(ins) <= 1
              /\ \A c \in ins : times # {} /\ c.time[2] = Min(times)
              /\ \A o \in outs : /\ o.time[2] \in times
                                 /\ \A c \in ins : o.time[2] > c.time[2]

\* C4: a reducer run that directly follows another reducer run creates nothing,
\* finds nothing already synced, and leaves the Employee Checkin table as it was.
C4_SecondReducerRunFindsNothing ==
    (ReducerReturned /\ result.prev # <<>>) =>
        /\ result.a = 0
        /\ result.b = 0
        /\ checkins = snap.checkins

\* C4 as first stated: the second run's already-synced count equals the number of
\* checkins the first run created.
C4_SecondRunCountsFirstRunsCheckins ==
    (ReducerReturned /\ result.prev # <<>>) =>
        /\ result.a = 0
        /\ result.b = result.prev[1].a
        /\ checkins = snap.checkins

\* C4 witness: the second of two successive reducer runs has returned, the first
\* having created checkins.
C4_Witness ==
    ReducerReturned /\ result.prev # <<>> /\ result.prev[1].a > 0

C6_OnePunchPerTimeInLog ==
    \A x \in punches, y \in punches :
        (x.parent = y.parent /\ x.punch_time = y.punch_time) => x = y

\* C6 witness: a device sync in which a save failed and a repeated event was skipped
\* has returned, leaving a log with several punches.
C6_Witness ==
    /\ DeviceReturned /\ result.b > 0 /\ result.failures > 0
    /\ \E x \in punches, y \in punches : x.parent = y.parent /\ x # y

\* C7: whatever device syncs have run, there is one log per (employee_no, event_date).
C7_OneLogPerEmployeeDate ==
    \A x \in logs, y \in logs :
        (x.employee_no = y.employee_no /\ x.event_date = y.event_date) => x = y

\* C7 witness: two devices have written punches into the log of one employee and
\* date, in a sync in which a save failed.
C7_Witness ==
    /\ DeviceReturned /\ result.failures > 0
    /\ \E x \in punches, y \in punches : x.parent = y.parent /\ x.device_id # y.device_id

\* The unsynced punches the last run started from, and their groups.
SnapRows == UnsyncedRowsOf(snap.punches, snap.logs)

PunchNamed(name) == CHOOSE x \in punches : x.name = name

GroupTimes(key) == { r.punch_time : r \in GroupOf(SnapRows, key) }

\* The employees who carry the device number emp_no.
Holders(emp_no) == { e \in Employees : employees[e].attendance_device_id = emp_no }

\* The group's employee_no resolves to an active employee.
Resolved(key) ==
    /\ key[1] # 0
    /\ \E e \in Holders(key[1]) : employees[e].status = "Active"

EmployeeOf(key) == CHOOSE e \in Holders(key[1]) : TRUE

\* No checkin existed for any punch of the group when the run started.
Fresh(key) ==
    \A t \in GroupTimes(key) :
        ~ \E c \in snap.checkins :
            c.employee = EmployeeOf(key) /\ c.time = punch_dt(key[2], t)

CreatedFor(key) ==
    { c \in checkins \ snap.checkins :
        c.employee = EmployeeOf(key) /\ c.time[1] = key[2] }

Expected(key) ==
    IF Cardinality(GroupOf(SnapRows, key)) >= 2
    THEN { <<Min(GroupTimes(key)), "IN">>, <<Max(GroupTimes(key)), "OUT">> }
    ELSE { <<Min(GroupTimes(key)), "IN">> }

\* C8: in a reducer run, a group of unsynced punches of an active employee with no
\* checkin yet gets exactly IN at its earliest and (two or more punches) OUT at its
\* latest punch; all its punches end synced and those in between get no checkin.
C8_GroupYieldsFirstInLastOut ==
    ReducerReturned =>
      \A key \in GroupKeys(SnapRows) :
        (Resolved(key) /\ Fresh(key)) =>
          /\ { <<c.time[2], c.log_type>> : c \in CreatedFor(key) } = Expected(key)
          /\ Cardinality(CreatedFor(key)) = Cardinality(Expected(key))
          /\ \A r \in GroupOf(SnapRows, key) :
               /\ \E x \in punches : x.name = r.punch_name
               /\ PunchNamed(r.punch_name).synced_to_employee_checkin = 1
               /\ (r.punch_time # Min(GroupTimes(key)) /\ r.punch_time # Max(GroupTimes(key)))
                  => PunchNamed(r.punch_name).employee_checkin = NoName

\* C8 witness: a reducer run has converted a group of three punches.
C8_Witness ==
    /\ ReducerReturned
    /\ \E key \in GroupKeys(SnapRows) :
         /\ Resolved(key) /\ Fresh(key)
         /\ Cardinality(GroupOf(SnapRows, key)) = 3
         /\ Cardinality(CreatedFor(key)) = 2

\* The boundary punches (first and last of their group) of the resolved groups.
BoundaryRows ==
    { r \in SnapRows :
        /\ Resolved(<<r.employee_no, r.event_date>>)
        /\ r.punch_time \in { Min(GroupTimes(<<r.employee_no, r.event_date>>)),
                              Max(GroupTimes(<<r.employee_no, r.event_date>>)) } }

\* C9: a reducer run never fails; it leaves each punch of a group whose employee_no
\* is empty, unknown or not Active exactly as it was, makes no checkin from it and
\* counts only the boundary punches of the other groups, which it does convert.
C9_UnresolvedGroupsUntouched ==
    /\ result.op = "reduce" => result.out = "ok"
    /\ ReducerReturned =>
         /\ \A r \in SnapRows :
              IF Resolved(<<r.employee_no, r.event_date>>)
              THEN \E x \in punches :
                     x.name = r.punch_name /\ x.synced_to_employee_checkin = 1
              ELSE /\ \E x \in snap.punches \cap punches : x.name = r.punch_name
                   /\ ~ \E c \in checkins \ snap.checkins : c.biometric_punch = r.punch_name
         /\ result.a + result.b = Cardinality(BoundaryRows)
         /\ result.a = Cardinality(checkins \ snap.checkins)

\* C9 witness: a reducer run has skipped the group of an employee who is not Active
\* while creating checkins for another group.
C9_Witness ==
    /\ ReducerReturned /\ result.a > 0
    /\ \E r \in SnapRows :
         /\ Holders(r.employee_no) # {}
         /\ ~ Resolved(<<r.employee_no, r.event_date>>)
         /\ \E x \in punches : x.name = r.punch_name /\ x.synced_to_employee_checkin = 0

\* C10: the probe of a device fails on volume exactly when totalMatches exceeds 1500,
\* and then before any page request and without touching logs or punches; a device
\* goes on to its pages only with totalMatches from 1 to 1500.
C10_VolumeCeilingFailsFast ==
    [][ \A p \in Procs :
          (loc[p].pc = "probe" /\ loc'[p] # loc[p]) =>
            /\ (loc'[p].pc = "idle" /\ result'.out = "VolumeExceeded") =>
                 /\ result'.feeds[Len(result'.feeds)].totalMatches > VolumeCeiling
                 /\ loc[p].requests = 0
                 /\ logs' = logs /\ punches' = punches
            /\ (loc'[p].pc = "idle" /\ Len(result'.feeds) > Len(loc[p].feeds)) =>
                 result'.feeds[Len(result'.feeds)].totalMatches > VolumeCeiling
            /\ loc'[p].pc = "page" =>
                 loc'[p].feed.totalMatches \in 1..VolumeCeiling ]_vars

\* C10 witness: in one pass a device reporting 1500 matches was paged and wrote
\* punches, and the next device, reporting 1501, failed the pass.
C10_Witness ==
    /\ AllIdle /\ result.op = "device" /\ result.out = "VolumeExceeded"
    /\ Len(result.feeds) = 2
    /\ result.feeds[1].totalMatches = VolumeCeiling
    /\ result.feeds[2].totalMatches = VolumeCeiling + 1
    /\ punches # snap.punches

-----------------------------------------------------------------------------
(* Pagination *)

\* The page requests (maxResults = batch_size) among the requests of a run.
PageRequests(asked) == SelectSeq(asked, LAMBDA r : r.maxResults = batch_size)

RECURSIVE SumReturned(_)
SumReturned(asked) ==
    IF asked = <<>> THEN 0 ELSE Head(asked).returned + SumReturned(Tail(asked))

ValidEvent(ev) == ev.employeeNoString # 0 /\ ev.time # NoTime

\* (employee_no, date, time of day to the second) of a valid event.
KeyOf(ev) == <<ev.employeeNoString, ev.time[1], ev.time[2]>>

\* The (employee_no, event_date, punch_time) keys stored in tables P and L.
StoredKeys(P, L) ==
    { <<y[2].employee_no, y[2].event_date, y[1].punch_time>> :
        y \in { z \in P \X L : z[2].name = z[1].parent } }

\* All events valid, pairwise distinct in their key, none stored when the run began.
AllNew(events) ==
    /\ \A i \in 1..Len(events) : ValidEvent(events[i])
    /\ \A i \in 1..Len(events), j \in 1..Len(events) :
          KeyOf(events[i]) = KeyOf(events[j]) => i = j
    /\ \A i \in 1..Len(events) : KeyOf(events[i]) \notin StoredKeys(snap.punches, snap.logs)

C11_Body ==
    LET f == result.feeds[1]
        pages == PageRequests(result.asked)
    IN  /\ f.totalMatches = 0 =>
              /\ result.a = 0 /\ result.b = 0
              /\ logs = snap.logs /\ punches = snap.punches
              /\ pages = <<>>
        /\ (f.totalMatches # 0 /\ AllNew(f.events)) =>
              /\ result.a = Len(f.events)
              /\ result.a = SumReturned(pages)
              /\ result.b = 0
              /\ Cardinality(punches) = Cardinality(snap.punches) + Len(f.events)

-----------------------------------------------------------------------------
(* What a device sync stores and counts *)

\* The events the devices of a run returned in its pages, in the order processed.
RECURSIVE Returned(_)
Returned(feeds) ==
    IF feeds = <<>> THEN <<>>
    ELSE (IF Head(feeds).totalMatches = 0 THEN <<>> ELSE Head(feeds).events)
         \o Returned(Tail(feeds))

ValidOf(events) == SelectSeq(events, ValidEvent)

EventKeys(events) == { KeyOf(events[i]) : i \in 1..Len(events) }

\* C12: after a device sync in which no request and no save failed, the stored
\* (employee_no, date, time of day) keys are those stored before together with the
\* keys of the returned events that have an employee number and a timestamp;
\* inserted is the number of keys added, and inserted and skipped together count
\* the valid events, so that skipped counts those whose key was already stored
\* when they were processed; a run that returned no valid event changes nothing.
C12_KeysUnionValidEvents ==
    (DeviceReturned /\ result.failures = 0) =>
      LET valid == ValidOf(Returned(result.feeds))
          before == StoredKeys(snap.punches, snap.logs)
          after == StoredKeys(punches, logs)
      IN  /\ after = before \cup EventKeys(valid)
          /\ result.a = Cardinality(after \ before)
          /\ result.b = Len(valid) - Cardinality(after \ before)
          /\ Cardinality(punches) = Cardinality(after)
          /\ valid = <<>> => (logs = snap.logs /\ punches = snap.punches)

\* C12 witness: a sync over two devices returned events without employee number or
\* timestamp, inserted new punches into a site that had some, and skipped others.
C12_Witness ==
    /\ DeviceReturned /\ result.failures = 0
    /\ result.a > 0 /\ result.b > 0
    /\ StoredKeys(snap.punches, snap.logs) # {}
    /\ Len(ValidOf(Returned(result.feeds))) < Len(Returned(result.feeds))

-----------------------------------------------------------------------------
(* The dedup key *)

\* The stored punches of the log(s) of an employee number and date.
PunchesFor(emp_no, event_date) ==
    { x \in punches : \E l \in LogsFor(emp_no, event_date) : x.parent = l.name }

SameDay(ev1, ev2) ==
    ev1.employeeNoString = ev2.employeeNoString /\ ev1.time[1] = ev2.time[1]

\* The valid events whose key was stored before the run or came earlier in the run.
Repeats(valid) ==
    { j \in 1..Len(valid) :
        \/ KeyOf(valid[j]) \in StoredKeys(snap.punches, snap.logs)
        \/ \E i \in 1..(j - 1) : KeyOf(valid[i]) = KeyOf(valid[j]) }

\* C13: after a device sync in which nothing failed, two events of one employee and
\* date with different times of day (to the second) are two punches; events with the
\* same time of day, also when they differ in what follows the seconds (fraction,
\* UTC offset), are one punch, each later one counted as a skipped duplicate.
C13_DedupByTimeOfDaySeconds ==
    (DeviceReturned /\ result.failures = 0) =>
      LET valid == ValidOf(Returned(result.feeds)) IN
      /\ \A i \in 1..Len(valid) :
            Cardinality({ x \in PunchesFor(valid[i].employeeNoString, valid[i].time[1]) :
                            x.punch_time = valid[i].time[2] }) = 1
      /\ result.b = Cardinality(Repeats(valid))

\* C13 as first stated: two events of one employee and date that differ only in a
\* component finer than the time of day are kept as two punches, so that the log
\* holds as many punches as it was sent distinct timestamps.
C13_FinerComponentKeptSeparate ==
    (DeviceReturned /\ result.failures = 0) =>
      LET valid == ValidOf(Returned(result.feeds)) IN
      \A i \in 1..Len(valid), j \in 1..Len(valid) :
        ( /\ SameDay(valid[i], valid[j])
          /\ valid[i].time[2] = valid[j].time[2]
          /\ valid[i].time[3] # valid[j].time[3] ) =>
          Cardinality({ x \in PunchesFor(valid[i].employeeNoString, valid[i].time[1]) :
                          x.punch_time = valid[i].time[2] }) >= 2

\* C13 witness: a sync returned two events of one employee and date that differ only
\* after the seconds and another pair with different times of day; the first pair is
\* one punch and one skipped duplicate.
C13_Witness ==
    /\ DeviceReturned /\ result.failures = 0 /\ result.b = 1
    /\ LET valid == ValidOf(Returned(result.feeds)) IN
        /\ \E i \in 1..Len(valid), j \in 1..Len(valid) :
              /\ SameDay(valid[i], valid[j]) /\ valid[i].time[2] = valid[j].time[2]
              /\ valid[i].time[3] # valid[j].time[3]
        /\ \E i \in 1..Len(valid), j \in 1..Len(valid) :
              /\ SameDay(valid[i], valid[j]) /\ valid[i].time[2] # valid[j].time[2]
    /\ \E x \in punches, y \in punches : x.parent = y.parent /\ x # y

-----------------------------------------------------------------------------
(* A failing save *)

\* C14: a save that fails changes no log and no punch and adds to neither count, and
\* the run goes on with the event after it (or the next page or device); a sync that
\* returns has therefore inserted, skipped or failed on every valid returned event,
\* and every valid event but the failed ones is stored.
C14_FailedSaveDoesNotAbort ==
    /\ [][ \A p \in Procs :
            (loc[p].pc = "save" /\ loc'[p].failures > loc[p].failures) =>
              /\ logs' = logs /\ punches' = punches
              /\ loc'[p].failures = loc[p].failures + 1
              /\ loc'[p].count + loc'[p].total_count = loc[p].count + loc[p].total_count
              /\ loc'[p].skipped + loc'[p].total_skipped
                    = loc[p].skipped + loc[p].total_skipped
              /\ IF loc[p].i < Len(loc[p].page)
                 THEN /\ loc'[p].pc = "event" /\ loc'[p].i = loc[p].i + 1
                      /\ loc'[p].page = loc[p].page
                 ELSE IF Len(loc[p].page) = batch_size
                 THEN /\ loc'[p].pc = "page"
                      /\ loc'[p].position = loc[p].position + batch_size
                 ELSE loc'[p].pc \in {"probe", "commit"} ]_vars
    /\ [](DeviceReturned =>
            LET valid == ValidOf(Returned(result.feeds)) IN
            /\ result.a + result.b + result.failures = Len(valid)
            /\ Cardinality(EventKeys(valid) \ StoredKeys(punches, logs)) <= result.failures)

\* C14 witness: the save of the first event of the first of three pages failed and
\* every other event of the three pages was inserted.
C14_Witness ==
    /\ DeviceReturned /\ result.failures = 1
    /\ Len(PageRequests(result.asked)) = 3
    /\ LET events == result.feeds[1].events IN
        /\ KeyOf(events[1]) \notin StoredKeys(punches, logs)
        /\ result.a = Len(events) - 1
        /\ Cardinality(punches) = Len(events) - 1

-----------------------------------------------------------------------------
(* The pass over the devices *)

IndexIn(devs, ip) == CHOOSE i \in 1..Len(devs) : devs[i] = ip

\* The devices a run sent a request to.
Contacted(asked) == { asked[i].ip : i \in 1..Len(asked) }

\* C15: when a device sync has ended, its requests went to the devices in the order
\* of the configuration, each device's requests together; a run that failed made its
\* last request to the failing device k, contacted exactly the devices 1..k and did
\* not commit; a run that returned contacted every device, without a failed request,
\* and committed once.
C15_DevicesInOrderCommitAtEnd ==
    (AllIdle /\ result.op = "device") =>
      LET asked == result.asked
          devs == result.devs
      IN  /\ \A i \in 1..Len(asked) : \E k \in 1..Len(devs) : devs[k] = asked[i].ip
          /\ \A i \in 1..(Len(asked) - 1) :
                IndexIn(devs, asked[i].ip) <= IndexIn(devs, asked[i + 1].ip)
          /\ \A i \in 1..(Len(asked) - 1) : asked[i].status = HTTP_OK
          /\ result.commits = (IF result.out = "ok" THEN 1 ELSE 0)
          /\ result.out = "ok" =>
                /\ Contacted(asked) = { devs[k] : k \in 1..Len(devs) }
                /\ Len(result.feeds) = Len(devs)
                /\ \A i \in 1..Len(asked) : asked[i].status = HTTP_OK
          /\ result.out \in {"TransportError", "VolumeExceeded"} =>
                LET k == IndexIn(devs, asked[Len(asked)].ip) IN
                /\ Contacted(asked) = { devs[j] : j \in 1..k }
                /\ Len(result.feeds) \in {k - 1, k}
                /\ result.out = "TransportError" <=> asked[Len(asked)].status # HTTP_OK
                /\ result.out = "VolumeExceeded" =>
                      /\ result.feeds[k].totalMatches > VolumeCeiling
                      /\ asked[Len(asked)].maxResults = 1
          /\ result.out = "NoDevice" => (asked = <<>> /\ devs = <<>>)

\* C15 witness: of two configured devices the first answered its probe and failed on
\* its page request; the second was never contacted and nothing was committed.
C15_Witness ==
    /\ AllIdle /\ result.op = "device" /\ result.out = "TransportError"
    /\ Len(result.devs) = 2 /\ Len(result.asked) = 2
    /\ Contacted(result.asked) = { result.devs[1] }
    /\ result.commits = 0

-----------------------------------------------------------------------------
(* Overlapping runs *)

\* C16: with two device syncs overlapping, in every interleaving of their steps the
\* stored result is that of a single run: each (employee_no, event_date) has at most
\* one log and no log holds two punches with the same punch_time.
C16_OverlappingSyncsAsOne ==
    /\ \A emp_no \in {1, 2}, d \in Dates : Cardinality(LogsFor(emp_no, d)) <= 1
    /\ \A x \in punches :
          Cardinality({ y \in punches : y.parent = x.parent /\ y.punch_time = x.punch_time }) = 1

\* C17: with a device sync and a reducer run overlapping, a punch once marked synced
\* stays synced and keeps its back-link, and a step that changes either field of a
\* stored punch is a write of the reducer.
C17_ReducerFlagsNeverReset ==
    [][ \A x \in punches : \A y \in punches' :
          y.name = x.name =>
            /\ x.synced_to_employee_checkin = 1 =>
                  /\ y.synced_to_employee_checkin = 1
                  /\ y.employee_checkin = x.employee_checkin
            /\ ( \/ y.synced_to_employee_checkin # x.synced_to_employee_checkin
                 \/ y.employee_checkin # x.employee_checkin ) =>
                  \E p \in Procs : /\ loc[p].op = "reduce" /\ loc[p].pc = "write"
                                    /\ loc'[p] # loc[p] ]_vars

-----------------------------------------------------------------------------
(* Retry after the employee mapping is fixed *)

\* The checkins the group's first and last punch call for and the employee did not
\* have at that time when the run started.
Wanted(key) ==
    { w \in Expected(key) :
        ~ \E c \in snap.checkins :
            c.employee = EmployeeOf(key) /\ c.time = punch_dt(key[2], w[1]) }

C18_Synced(key) ==
    /\ GroupOf(SnapRows, key) # {}
    /\ \A r \in GroupOf(SnapRows, key) :
          \E x \in punches : x.name = r.punch_name /\ x.synced_to_employee_checkin = 1

\* C18: a group that a reducer run left unsynced and whose employee_no the mapping
\* has since resolved to an Active employee is converted by the next reducer run:
\* every punch of the group is marked synced, the employee has a checkin at the
\* group's first and last punch, and the run creates IN at the first and (two or
\* more punches) OUT at the last wherever the employee had no checkin at that time.
C18_ResolvedGroupIsConverted ==
    ReducerReturned =>
      \A key \in result.was_left :
        Resolved(key) =>
          /\ C18_Synced(key)
          /\ \A w \in Expected(key) :
                \E c \in checkins :
                    c.employee = EmployeeOf(key) /\ c.time = punch_dt(key[2], w[1])
          /\ { <<c.time[2], c.log_type>> : c \in CreatedFor(key) } = Wanted(key)
          /\ Cardinality(CreatedFor(key)) = Cardinality(Wanted(key))

\* C18 as first stated: the run creates the group's IN and (two or more punches) OUT.
C18_ResolvedGroupGetsInAndOut ==
    ReducerReturned =>
      \A key \in result.was_left :
        Resolved(key) =>
          /\ C18_Synced(key)
          /\ { <<c.time[2], c.log_type>> : c \in CreatedFor(key) } = Expected(key)

\* C18 witness: a group of two punches was left by a reducer run, its employee_no
\* was then given to an Active employee, and the next run created its IN and OUT.
C18_Witness ==
    /\ ReducerReturned
    /\ \E key \in result.was_left :
         /\ Resolved(key)
         /\ Cardinality(GroupOf(SnapRows, key)) = 2
         /\ Cardinality(CreatedFor(key)) = 2
         /\ \A r \in GroupOf(SnapRows, key) :
               PunchNamed(r.punch_name).synced_to_employee_checkin = 1

-----------------------------------------------------------------------------
(* Biometric Daily Report.  punch_time is read as a timedelta: the seconds *)
(* since midnight.                                                         *)

\* Times of day in seconds: around midnight, 09:00, 17:00 and the end of the day.
ReportTimes == {0, 59, 60, 32400, 32459, 61200, 61230, 86399}

ReportLog == [name |-> <<1, 1, 1>>, employee_no |-> 1, event_date |-> 1, device_id |-> "10.0.0.1"]

ReportPunch(t) ==
    [ name |-> <<ReportLog.name, t, 1>>, parent |-> ReportLog.name, punch_time |-> t,
      punch_type |-> "Auto", device_id |-> "10.0.0.1",
      synced_to_employee_checkin |-> 0, employee_checkin |-> NoName ]

\* A site with one log whose punches are any of the times above.
InitReport ==
    /\ logs = {ReportLog}
    /\ punches \in { { ReportPunch(t) : t \in T } : T \in SUBSET ReportTimes }
    /\ checkins = {}
    /\ employees = [e \in Employees |->
            IF e = "EMP-A" THEN [attendance_device_id |-> 1, status |-> "Active"]
                           ELSE [attendance_device_id |-> 2, status |-> "Active"]]
    /\ loc = [p \in Procs |-> Idle]
    /\ result = NoResult
    /\ snap = [logs |-> {}, punches |-> {}, checkins |-> {}]
    /\ ops = 0

\* SELECT ... WHERE at.parent = log ORDER BY at.punch_time
RECURSIVE order_by_punch_time(_)
order_by_punch_time(rows) ==
    IF rows = {} THEN <<>>
    ELSE LET m == CHOOSE r \in rows : \A o \in rows : r.punch_time <= o.punch_time
         IN  <<m>> \o order_by_punch_time(rows \ {m})

\* for i in range(0, len(punches) - 1, 2): total += int(t_out / 60) - int(t_in / 60)
RECURSIVE calculate_total_minutes_all_gaps(_)
calculate_total_minutes_all_gaps(ps) ==
    IF Len(ps) < 2 THEN 0
    ELSE (ps[2].punch_time \div 60) - (ps[1].punch_time \div 60)
         + calculate_total_minutes_all_gaps(Tail(ps))

RECURSIVE calculate_total_minutes(_)
calculate_total_minutes(ps) ==
    IF Len(ps) < 2 THEN 0
    ELSE (ps[2].punch_time \div 60) - (ps[1].punch_time \div 60)
         + calculate_total_minutes(SubSeq(ps, 3, Len(ps)))

\* The format specification :02 of an f-string.
two_digits(n) == IF n < 10 THEN "0" \o ToString(n) ELSE ToString(n)

\* h, m = divmod(minutes, 60); f"{h:02}:{m:02}"
format_minutes_to_hhmm(minutes) ==
    two_digits(minutes \div 60) \o ":" \o two_digits(minutes % 60)

\* The row of one log: its punches in order and the total duration.
report_row(log) ==
    LET ps == order_by_punch_time({ x \in punches : x.parent = log.name }) IN
    [ employee_id |-> log.employee_no,
      log |-> log.name,
      punches |-> [i \in 1..Len(ps) |-> ps[i].punch_time],
      total_duration |-> IF Len(ps) % 2 # 0 THEN "Check"
                         ELSE format_minutes_to_hhmm(calculate_total_minutes(ps)) ]

\* execute(filters): the rows of the employees present on the date (the logs whose
\* employee_no is some employee's device id) and the employees who are absent.
execute ==
    /\ ops < MaxOps
    /\ ops' = ops + 1
    /\ UNCHANGED <<logs, punches, checkins, employees, loc, snap>>
    /\ \E date \in {1, 2} :
         LET present == { l \in logs :
                            /\ l.event_date = date
                            /\ \E e \in Employees :
                                 employees[e].attendance_device_id = l.employee_no }
         IN  result' = [ op |-> "report", out |-> "ok", date |-> date,
                         rows |-> { report_row(l) : l \in present },
                         absent |-> { e \in Employees :
                                       /\ employees[e].status = "Active"
                                       /\ employees[e].attendance_device_id # 0
                                       /\ ~ \E l \in present :
                                            l.employee_no = employees[e].attendance_device_id } ]

NextReport == execute

SpecReport == InitReport /\ [][NextReport]_vars

\* The punch times of a log, ascending.
RECURSIVE Ascending(_)
Ascending(T) == IF T = {} THEN <<>> ELSE <<Min(T)>> \o Ascending(T \ {Min(T)})

TimesOfLog(name) == Ascending({ x.punch_time : x \in { y \in punches : y.parent = name } })

RECURSIVE SumOver(_, _)
SumOver(f, K) ==
    IF K = {} THEN 0 ELSE LET k == CHOOSE k \in K : TRUE IN f[k] + SumOver(f, K \ {k})

Digits == <<"0", "1", "2", "3", "4", "5", "6", "7", "8", "9">>

\* HH:MM written digit by digit.
HHMM(minutes) ==
    Digits[((minutes \div 60) \div 10) + 1] \o Digits[((minutes \div 60) % 10) + 1] \o ":"
    \o Digits[((minutes % 60) \div 10) + 1] \o Digits[((minutes % 60) % 10) + 1]

\* C19: the total of a report row is "Check" exactly when the log has an odd number
\* of punches; with an even number it is, as HH:MM, the sum over the pairs (0,1),
\* (2,3), ... of the punches in ascending order of the later punch's minute of the
\* day less the earlier punch's minute of the day (each punch taken in whole minutes).
C19_TotalIsSumOfPairsInMinutes ==
    result.op = "report" =>
      \A row \in result.rows :
        LET t == TimesOfLog(row.log)
            n == Len(t)
        IN  /\ (row.total_duration = "Check") <=> (n % 2 = 1)
            /\ n % 2 = 0 =>
                  row.total_duration =
                    HHMM(SumOver([k \in 1..(n \div 2) |->
                                    (t[2 * k] \div 60) - (t[2 * k - 1] \div 60)],
                                 1..(n \div 2)))

\* C19 as first stated: each pair contributes its difference in whole minutes.
C19_TotalIsSumOfPairDifferences ==
    result.op = "report" =>
      \A row \in result.rows :
        LET t == TimesOfLog(row.log)
            n == Len(t)
        IN  /\ (row.total_duration = "Check") <=> (n % 2 = 1)
            /\ n % 2 = 0 =>
                  row.total_duration =
                    HHMM(SumOver([k \in 1..(n \div 2) |-> (t[2 * k] - t[2 * k - 1]) \div 60],
                                 1..(n \div 2)))

\* C19 witness: the report of a log with punches at 09:00 and 17:00 shows 08:00.
C19_Witness ==
    /\ result.op = "report"
    /\ \E row \in result.rows :
         /\ row.punches = <<32400, 61200>>
         /\ row.total_duration = "08:00"

-----------------------------------------------------------------------------
(* The page loop *)

IsProbe(r) == r.maxResults = 1 /\ r.searchResultPosition = 0

IsPage(r) == r.maxResults = batch_size

\* The requests made so far are a probe per device, each followed by that device's
\* page requests: the first at position 0, each next one at the position after the
\* events returned so far, and only after a page of batch_size events.
PagingInOrder(asked) ==
    /\ \A i \in 1..Len(asked) : IsProbe(asked[i]) \/ IsPage(asked[i])
    /\ asked # <<>> => IsProbe(asked[1])
    /\ \A i \in 2..Len(asked) :
          IsPage(asked[i]) =>
            /\ asked[i - 1].ip = asked[i].ip
            /\ asked[i - 1].status = HTTP_OK
            /\ IF IsProbe(asked[i - 1])
               THEN asked[i].searchResultPosition = 0
               ELSE /\ asked[i - 1].returned = batch_size
                    /\ asked[i].searchResultPosition
                         = asked[i - 1].searchResultPosition + asked[i - 1].returned

\* C20: the page requests of a device sync ask for batch_size events from position
\* 0 on, each next position being the last one plus the events returned, and none
\* follows a page that is empty or shorter than batch_size; a sync that returned
\* stopped only at such a page; and every started device sync ends.
C20_PagingAdvancesAndStops ==
    /\ [](\A p \in Procs : PagingInOrder(loc[p].asked))
    /\ [](DeviceReturned =>
            /\ PagingInOrder(result.asked)
            /\ \A i \in 1..Len(result.asked) :
                  (IsPage(result.asked[i]) /\ result.asked[i].returned = batch_size) =>
                    (i < Len(result.asked) /\ IsPage(result.asked[i + 1])))
    /\ (loc[1].pc # "idle") ~> (loc[1].pc = "idle")

\* C20 witness: a sync got a full first page, made its second page request at
\* position batch_size, got an empty page and returned without a further request.
C20_Witness ==
    /\ DeviceReturned
    /\ Len(PageRequests(result.asked)) = 2
    /\ PageRequests(result.asked)[1].searchResultPosition = 0
    /\ PageRequests(result.asked)[1].returned = batch_size
    /\ PageRequests(result.asked)[2].searchResultPosition = batch_size
    /\ PageRequests(result.asked)[2].returned = 0
    /\ result.a + result.failures = batch_size

-----------------------------------------------------------------------------
(* The two counters of the reducer *)

\* A checkin with the employee and the date and time of the punch in hand is stored.
CheckinInHand ==
    \E c \in checkins :
        /\ c.employee = loc[1].employee
        /\ c.time = <<loc[1].key[2], PunchNamed(loc[1].cur).punch_time>>

\* C22: each time the reducer handles a first or last punch, the punch is marked
\* synced and exactly one of the two counters goes up by one: alreadySynced, with no
\* checkin created, when a checkin with that employee and date and time is stored,
\* and created, with one checkin inserted, when none is.
C22_BoundaryPunchCountedOnce ==
    [][ (loc[1].pc = "write" /\ loc'[1] # loc[1]) =>
          /\ \E x \in punches' :
                x.name = loc[1].cur /\ x.synced_to_employee_checkin = 1
          /\ IF CheckinInHand
             THEN /\ checkins' = checkins
                  /\ loc'[1].already_synced = loc[1].already_synced + 1
                  /\ loc'[1].created = loc[1].created
             ELSE /\ Cardinality(checkins') = Cardinality(checkins) + 1
                  /\ loc'[1].created = loc[1].created + 1
                  /\ loc'[1].already_synced = loc[1].already_synced ]_vars

\* C22 witness: a reducer run has returned that counted a boundary punch as already
\* synced: the punch is now synced without a back-link, and the checkin of its date
\* and time was stored before the run.
C22_Witness ==
    /\ ReducerReturned
    /\ result.b >= 1
    /\ \E r \in SnapRows :
          /\ PunchNamed(r.punch_name).synced_to_employee_checkin = 1
          /\ PunchNamed(r.punch_name).employee_checkin = NoName
          /\ \E c \in snap.checkins : c.time = <<r.event_date, r.punch_time>>

-----------------------------------------------------------------------------
(* The devices of a pass *)

UsableRow(d) == d.is_active = 1 /\ d.ip_address # NoIp

\* The hosts of the active rows that have one, in the order of the rows.
UsableHosts(settings) ==
    LET rows == SelectSeq(settings.devices, UsableRow)
    IN  [k \in 1..Len(rows) |-> rows[k].ip_address]

ExpectedDevices(settings) ==
    IF \E k \in 1..Len(settings.devices) : UsableRow(settings.devices[k])
    THEN UsableHosts(settings)
    ELSE IF settings.ip # NoIp THEN <<settings.ip>> ELSE <<>>

\* The pass under way, or the one that has just ended.
C23_Pass(l) ==
    /\ l.devs = ExpectedDevices(l.settings)
    /\ \A i \in 1..Len(l.asked) : \E k \in 1..Len(l.devs) : l.devs[k] = l.asked[i].ip

\* C23: the devices of a pass are the hosts of the settings' active rows that have a
\* host, in the order of the rows, if there is such a row; else the main host alone,
\* if the settings have one; else none, and then the pass ends with the error
\* NoDevice, having sent no request and written nothing.  Requests go to these
\* devices only.
C23_DeviceListResolved ==
    /\ loc[1].op = "device" => C23_Pass(loc[1])
    /\ (AllIdle /\ result.op = "device") =>
          /\ C23_Pass(result)
          /\ result.out = "NoDevice" <=> ExpectedDevices(result.settings) = <<>>
          /\ result.out = "NoDevice" =>
                (result.asked = <<>> /\ result.commits = 0 /\ DB = snap)
          /\ result.out = "ok" =>
                Contacted(result.asked) = { result.devs[k] : k \in 1..Len(result.devs) }

\* C23 witness: a pass has returned whose settings have a main host and two rows,
\* an inactive one and an active one with another host: the pass went to the active
\* row's host only.
C23_Witness ==
    /\ DeviceReturned
    /\ result.settings.ip = "10.0.0.2"
    /\ result.settings.devices = << Row("10.0.0.2", 0), Row("10.0.0.3", 1) >>
    /\ result.devs = << "10.0.0.3" >>
    /\ Contacted(result.asked) = {"10.0.0.3"}
    /\ punches # {}

-----------------------------------------------------------------------------
(* The combined operation *)

SyncedNames(P) == { x.name : x \in { y \in P : y.synced_to_employee_checkin = 1 } }

\* C24: in sync_attendance the reducer starts only from the commit of the device
\* pass, with every device paged; until then no checkin is created and no punch is
\* marked synced.  An operation whose device pass failed ends with that error, with
\* no commit, no checkin created and no punch marked synced; one that returns has
\* committed the device pass and run the reducer.
C24_DevicePassThenReducer ==
    /\ [][ (loc[1].combined /\ loc[1].op = "device" /\ loc'[1].op = "reduce") =>
              loc[1].pc = "commit" ]_vars
    /\ [](\A p \in Procs :
            /\ (loc[p].combined /\ loc[p].op = "device") =>
                  /\ checkins = snap.checkins
                  /\ SyncedNames(punches) = SyncedNames(snap.punches)
            /\ (loc[p].combined /\ loc[p].op = "reduce") =>
                  /\ loc[p].committed = 1
                  /\ Len(loc[p].feeds) = Len(loc[p].devs)
                  /\ \A i \in 1..Len(loc[p].asked) : loc[p].asked[i].status = HTTP_OK)
    /\ []((AllIdle /\ result.combined) =>
            /\ result.out # "ok" =>
                  /\ result.op = "device"
                  /\ result.device_commits = 0 /\ result.commits = 0
                  /\ checkins = snap.checkins
                  /\ SyncedNames(punches) = SyncedNames(snap.punches)
            /\ result.out = "ok" =>
                  /\ result.op = "reduce"
                  /\ result.device_commits = 1)

\* C24 witness: a combined operation has returned whose device pass stored punches
\* and whose reducer created checkins from them.
C24_Witness ==
    /\ AllIdle /\ result.combined /\ result.out = "ok"
    /\ snap.punches = {} /\ punches # {}
    /\ result.a >= 1 /\ checkins # {}

\* A combined operation has failed in its device pass after punches were stored.
C24_WitnessFailed ==
    /\ AllIdle /\ result.combined /\ result.out = "TransportError"
    /\ UnsyncedRows # {}

-----------------------------------------------------------------------------
(* The scheduled job *)

\* C25: a run of the scheduled job ends without raising: with everything done and
\* the device-sync job and then the reducer job in the queue, or with the failure
\* logged and in the queue the jobs enqueued before it.  It writes no log, punch or
\* checkin itself.  A job in the queue can be started whatever the other job is
\* doing.
C25_ScheduledJobNeverRaises ==
    /\ [][ (ops' # ops /\ result'.op = "scheduled") =>
              /\ result'.out \in {"ok", "logged"}
              /\ result'.out = "ok" =>
                    /\ result'.enqueued = << "device", "reduce" >>
                    /\ loc'[1] = Queued("device") /\ loc'[2] = Queued("reduce")
                    /\ result'.window # <<>>
                    /\ result'.window[2] - result'.window[1] = BACK_DAYS - 1
              /\ result'.out = "logged" =>
                    /\ result'.enqueued \in { <<>>, << "device" >> }
                    /\ \A p \in Procs : loc'[p].pc = "queued" <=> p <= Len(result'.enqueued)
              /\ DB' = DB ]_vars
    /\ [](\A p \in Procs : loc[p].pc = "queued" => ENABLED JobStart(p))

\* C25 witness: the job enqueued both jobs, and the reducer job has run to its end,
\* creating a checkin, while the device-sync job of the same run is still queued.
C25_Witness ==
    /\ loc[1] = Queued("device")
    /\ loc[2].pc = "idle"
    /\ result.op = "reduce" /\ result.out = "ok" /\ result.a >= 1

\* The second enqueue failed: the failure is logged and the device-sync job stays
\* in the queue.
C25_WitnessLogged ==
    /\ result.op = "scheduled" /\ result.out = "logged"
    /\ result.enqueued = << "device" >>
    /\ loc[1] = Queued("device") /\ loc[2].pc = "idle"

-----------------------------------------------------------------------------
(* The coordinates of the checkins *)

\* The answer carries a location: status 200 and a "loc" of two numbers.
Usable(r) ==
    /\ ~ r.raised /\ r.status = HTTP_OK
    /\ Len(r.loc) = 2
    /\ \A k \in 1..2 : r.loc[k].numeric

ExpectedPair(r) ==
    IF Usable(r) THEN << r.loc[1].value, r.loc[2].value >>
    ELSE << DEFAULT_LAT, DEFAULT_LON >>

\* C26: a reducer invocation looks the geolocation up once; every checkin created
\* in it carries one and the same pair of coordinates: that of the answer, or, when
\* the lookup raised, was answered with another status than 200 or carried no
\* location of two numbers, the fallback pair.
C26_OneLookupOnePair ==
    /\ \A p \in Procs : loc[p].op = "reduce" =>
          /\ loc[p].lookups = 1
          /\ \A c \in checkins \ snap.checkins :
                << c.latitude, c.longitude >> = ExpectedPair(loc[p].geo)
    /\ ReducerReturned =>
          /\ result.lookups = 1
          /\ \A c \in checkins \ snap.checkins :
                << c.latitude, c.longitude >> = ExpectedPair(result.geo)

\* C26 witness: two reducer runs have created checkins, one with the located pair
\* and the last one, whose lookup found no location, two with the fallback pair.
C26_Witness ==
    /\ ReducerReturned
    /\ ~ Usable(result.geo)
    /\ Cardinality(checkins \ snap.checkins) = 2
    /\ \A c \in checkins \ snap.checkins : c.latitude = DEFAULT_LAT
    /\ \E c \in snap.checkins : c.latitude = Located.loc[1].value

-----------------------------------------------------------------------------
(* Synced boundary punches and their checkins *)

LogNamed(name) == CHOOSE x \in logs : x.name = name

\* The date and time of a stored punch.
StampOf(x) == << LogNamed(x.parent).event_date, x.punch_time >>

\* C27: whenever the reducer handles a first or last punch, the step that marks it
\* synced leaves a checkin with the group's employee and the punch's date and time
\* stored, and it marks no other punch than that one and (after the last boundary
\* punch) the group's middle punches; checkins are never removed or changed; and a
\* back-link that is set names a stored checkin of that punch's date and time,
\* made from that punch, whose punch is marked synced.
C27_SyncedBoundaryHasCheckin ==
    /\ [][ \A p \in Procs :
             (loc[p].pc = "write" /\ loc'[p].pc # "write") =>
               /\ \E c \in checkins' :
                     /\ c.employee = loc[p].employee
                     /\ c.time = StampOf(PunchNamed(loc[p].cur))
               /\ \E x \in punches' :
                     x.name = loc[p].cur /\ x.synced_to_employee_checkin = 1
               /\ \A x \in punches' :
                     (x.synced_to_employee_checkin = 1 /\ x \notin punches) =>
                       /\ x.parent = PunchNamed(loc[p].cur).parent
                       /\ \/ x.name = loc[p].cur
                          \/ /\ loc'[p].pc = "group"
                             /\ x.name \notin {loc[p].first, loc[p].last}
                             /\ x.employee_checkin = NoName ]_vars
    /\ [][ checkins \subseteq checkins' ]_vars
    /\ [](\A x \in punches :
            x.employee_checkin # NoName =>
              /\ x.synced_to_employee_checkin = 1
              /\ \E c \in checkins :
                    /\ c.name = x.employee_checkin
                    /\ c.time = StampOf(x)
                    /\ c.biometric_punch = x.name
                    /\ c.employee \in Employees)

\* C27 witness: a reducer run has returned that made the IN and the OUT checkin of
\* a group of two punches: both punches are synced and linked to their checkins.
C27_Witness ==
    /\ ReducerReturned /\ result.a = 2
    /\ \E x \in punches, y \in punches :
          /\ x.parent = y.parent /\ x.punch_time < y.punch_time
          /\ x.employee_checkin # NoName /\ y.employee_checkin # NoName
          /\ \E c \in checkins \ snap.checkins, d \in checkins \ snap.checkins :
                /\ c.name = x.employee_checkin /\ c.log_type = "IN"
                /\ d.name = y.employee_checkin /\ d.log_type = "OUT"
                /\ c.employee = d.employee

-----------------------------------------------------------------------------
(* A device that records events during the sync *)

C21_Body ==
    /\ PagingInOrder(result.asked)
    /\ \A k \in 1..Len(result.feeds) :
          result.feeds[k].totalMatches # 0 =>
            \A i \in 1..Len(result.feeds[k].events) :
              ValidEvent(result.feeds[k].events[i]) =>
                KeyOf(result.feeds[k].events[i]) \in StoredKeys(punches, logs)

====
